---- MODULE Spec2Model ----
(***************************************************************************)
(* ThingBase ESP32 firmware: device lifecycle (boot sequence, local        *)
(* provisioning server and its background task, claim, steady loop,        *)
(* factory reset) over the persistent Preferences namespace "thingbase".   *)
(*                                                                         *)
(* Processes: the Arduino loopTask (setup() then loop() forever), the      *)
(* async HTTP server task (handleProvision), and the FreeRTOS tasks        *)
(* created by handleProvision (provisioningTask).  ESP.restart() kills     *)
(* every task and clears RAM; only the Preferences store survives.         *)
(*                                                                         *)
(* Time: millis() is read only in differences (millis() - start), so each  *)
(* timestamp variable of the code is kept as the elapsed time since it was *)
(* set; elapsed times advance together in steps of Quantum and stop        *)
(* growing once they are past the threshold they are compared with.        *)
(***************************************************************************)
EXTENDS Integers, Sequences, FiniteSets, Bags, TLC

\* ------------------------------------------------------------ bounds

\* Granularity of time, in milliseconds.
Quantum == 5000

\* Number of provisioningTask instances that can exist at once.
MaxTasks == 2

\* ------------------------------------------------- program constants

RESET_HOLD_TIME_MS == 5000

TELEMETRY_INTERVAL_MS == 10000

WIFI_CONNECT_TIMEOUT_MS == 15000

MQTT_RECONNECT_DELAY_MS == 5000

\* The literal bound of the join wait in setup()'s pending-claim branch.
SETUP_JOIN_TIMEOUT_MS == 30000

\* ------------------------------------------------- Preferences store

\* A key that was never written (or was erased) holds Absent.
Absent == "<absent>"

MqttKeys ==
  <<"mqtt_broker", "mqtt_client", "mqtt_user", "mqtt_pass", "topic_tele",
    "topic_cmd", "topic_ack", "topic_status", "tenant_id", "device_id">>

Keys ==
  {"wifi_ssid", "wifi_pass", "claim_token", "claim_url", "provisioned"}
    \cup {MqttKeys[i] : i \in 1..Len(MqttKeys)}

EmptyStore == [k \in Keys |-> Absent]

\* Preferences::getString(key, ""): the default when the key is absent.
getString(s, k) == IF s[k] = Absent THEN "" ELSE s[k]

\* Preferences::putString(key, value)
putString(s, k, v) == [s EXCEPT ![k] = v]

\* Preferences::remove(key)
remove(s, k) == [s EXCEPT ![k] = Absent]

\* A storageClear that erases the credentials and forgets the flag.
storageClearKeepsFlag(s) == [k \in Keys |-> IF k = "provisioned" THEN s[k] ELSE Absent]

\* storageClear(): prefs.clear() erases every key of the namespace.
storageClear(s) == [k \in Keys |-> Absent]

\* storageIsProvisioned(): getBool("provisioned", false); putBool stores "1".
storageIsProvisioned(s) == s["provisioned"] = "1"

storageSaveWifi(s, ssid, password) ==
  putString(putString(s, "wifi_ssid", ssid), "wifi_pass", password)

\* What can follow the bytes of a char array that was left without a
\* terminator: nothing (the next byte happens to be 0) or more bytes.
Garbage == {"", "?"}

\* strncpy(dst, src, n) into an uninitialised char[n + 1], read back as a C
\* string: src when it is shorter than n (the rest is zero-padded); else its
\* first n characters with no terminator, followed by g.
strncpy(src, n, g) == IF Len(src) < n THEN src ELSE SubSeq(src, 1, n) \o g

\* In-memory credential records.  An invalid record's text fields are never
\* read by the program; they are kept empty here.
NoWifi == [ssid |-> "", password |-> "", isValid |-> FALSE]

\* A load that reports a record valid whatever the store holds.
storageLoadWifiAlwaysValid(s, g) ==
  [ssid |-> strncpy(getString(s, "wifi_ssid"), 63, g),
   password |-> strncpy(getString(s, "wifi_pass"), 63, g),
   isValid |-> TRUE]

\* storageLoadWifi() into WifiCredentials {char ssid[64]; char password[64]}.
storageLoadWifiWith(s, g) ==
  IF Len(getString(s, "wifi_ssid")) > 0
    THEN [ssid |-> strncpy(getString(s, "wifi_ssid"), 63, g),
          password |-> strncpy(getString(s, "wifi_pass"), 63, g),
          isValid |-> TRUE]
    ELSE NoWifi

\* storageLoadWifi() where every stored string fits its array.
storageLoadWifi(s) == storageLoadWifiWith(s, "")

MqttFields ==
  <<"broker", "clientId", "username", "password", "topicTelemetry",
    "topicCommands", "topicAck", "topicStatus", "tenantId", "deviceId">>

NoMqtt ==
  [broker |-> "", clientId |-> "", username |-> "", password |-> "",
   topicTelemetry |-> "", topicCommands |-> "", topicAck |-> "",
   topicStatus |-> "", tenantId |-> "", deviceId |-> "", isValid |-> FALSE]

\* storageSaveMqtt(ten fields): ten putString and putBool("provisioned", true).
storageSaveMqtt(s, m) ==
  [k \in Keys |->
     CASE k = "mqtt_broker" -> m.broker
       [] k = "mqtt_client" -> m.clientId
       [] k = "mqtt_user" -> m.username
       [] k = "mqtt_pass" -> m.password
       [] k = "topic_tele" -> m.topicTelemetry
       [] k = "topic_cmd" -> m.topicCommands
       [] k = "topic_ack" -> m.topicAck
       [] k = "topic_status" -> m.topicStatus
       [] k = "tenant_id" -> m.tenantId
       [] k = "device_id" -> m.deviceId
       [] k = "provisioned" -> "1"
       [] OTHER -> s[k]]

\* storageLoadMqtt() into MqttCredentials (storage.h: arrays of 128 and 64).
storageLoadMqttWith(s, g) ==
  IF Len(getString(s, "mqtt_broker")) > 0
    THEN [broker |-> strncpy(getString(s, "mqtt_broker"), 127, g),
          clientId |-> strncpy(getString(s, "mqtt_client"), 63, g),
          username |-> strncpy(getString(s, "mqtt_user"), 63, g),
          password |-> strncpy(getString(s, "mqtt_pass"), 127, g),
          topicTelemetry |-> strncpy(getString(s, "topic_tele"), 127, g),
          topicCommands |-> strncpy(getString(s, "topic_cmd"), 127, g),
          topicAck |-> strncpy(getString(s, "topic_ack"), 127, g),
          topicStatus |-> strncpy(getString(s, "topic_status"), 127, g),
          tenantId |-> strncpy(getString(s, "tenant_id"), 63, g),
          deviceId |-> strncpy(getString(s, "device_id"), 63, g),
          isValid |-> TRUE]
    ELSE NoMqtt

\* storageLoadMqtt() where every stored string fits its array.
storageLoadMqtt(s) == storageLoadMqttWith(s, "")

\* ------------------------------------------------------ claim client

\* What the claim server can answer: the HTTP status (0 and below: the
\* transport failed), whether the body parses, and the fields of the body
\* (Absent: the field is missing).
ClaimResponses ==
  { [code |-> 200, json |-> TRUE, success |-> TRUE, error |-> Absent,
     message |-> Absent, broker |-> "mqtt://host"],
    [code |-> 201, json |-> TRUE, success |-> TRUE, error |-> Absent,
     message |-> Absent, broker |-> Absent],
    [code |-> 200, json |-> TRUE, success |-> FALSE, error |-> "bad token",
     message |-> Absent, broker |-> Absent],
    [code |-> 200, json |-> FALSE, success |-> FALSE, error |-> Absent,
     message |-> Absent, broker |-> Absent],
    [code |-> 401, json |-> TRUE, success |-> FALSE, error |-> Absent,
     message |-> "unauthorized", broker |-> Absent],
    [code |-> 0 - 1, json |-> FALSE, success |-> FALSE, error |-> Absent,
     message |-> Absent, broker |-> Absent] }

\* ArduinoJson: variant | "" (the default when the field is no string).
OrEmpty(v) == IF v = Absent THEN "" ELSE v

\* ArduinoJson: variant.as<String>() (a missing field serializes as null).
AsString(v) == IF v = Absent THEN "null" ELSE v

NoResult == [success |-> FALSE, error |-> "", mqtt |-> NoMqtt]

\* claimDevice(serverUrl, claimToken), as a function of the server's answer.
\* tenant, device and the other broker fields of a success body are taken
\* as present.
claimDevice(r) ==
  IF r.code = 200 \/ r.code = 201
    THEN IF ~r.json
           THEN [NoResult EXCEPT !.error = "Failed to parse response"]
           ELSE IF r.success
             THEN [success |-> TRUE, error |-> "",
                   mqtt |-> [broker |-> OrEmpty(r.broker), clientId |-> "client",
                             username |-> "user", password |-> "pass",
                             topicTelemetry |-> "t/tele", topicCommands |-> "t/cmd",
                             topicAck |-> "t/ack", topicStatus |-> "t/status",
                             tenantId |-> "tenant", deviceId |-> "device",
                             isValid |-> TRUE]]
             ELSE [NoResult EXCEPT !.error = AsString(r.error)]
    ELSE IF r.code > 0
      THEN IF r.json
             THEN [NoResult EXCEPT !.error = AsString(r.message)]
             ELSE [NoResult EXCEPT !.error = "HTTP Error"]
      ELSE [NoResult EXCEPT !.error = "Connection failed"]

\* ------------------------------------------------- provisioning input

\* Bodies of POST /provision: whether the body parses as JSON, and its four
\* fields (Absent: the key is missing or is no string).
BodyA ==
  [json |-> TRUE, ssid |-> "netA", password |-> "pwA", claimToken |-> "tokA",
   serverUrl |-> "urlA"]

\* All four fields present, the network name an empty string.
BodyEmptySsid ==
  [json |-> TRUE, ssid |-> "", password |-> "pwB", claimToken |-> "tokB",
   serverUrl |-> "urlB"]

\* All four fields present, the claim token an empty string.
BodyEmptyToken ==
  [json |-> TRUE, ssid |-> "netC", password |-> "pwC", claimToken |-> "",
   serverUrl |-> "urlC"]

BodyFields == {"ssid", "password", "claimToken", "serverUrl"}

Bodies ==
  {BodyA, BodyEmptySsid, BodyEmptyToken, [BodyA EXCEPT !.json = FALSE]}
    \cup {[BodyA EXCEPT ![f] = Absent] : f \in BodyFields}

\* A field check that forgets serverUrl.
RejectedForgetsServerUrl(b) ==
  \/ ~b.json
  \/ \E f \in BodyFields \ {"serverUrl"} : b[f] = Absent

\* handleProvision lines 144-158: the body is answered with 400 (parse
\* error, or a field that is missing or no string).
Rejected(b) ==
  \/ ~b.json
  \/ \E f \in BodyFields : b[f] = Absent

\* --------------------------------------------------------------- state

VARIABLES
  store,                    \* Preferences namespace "thingbase"
  pc,                       \* position of the loopTask
  bootPath,                 \* setup(): the branch taken so far (its locals)
  result,                   \* setup(): ClaimResult result
  claimCalls,               \* claimDevice calls made since the restart
  isProvisioning,           \* provisioning.cpp: isProvisioning
  staBegun,                 \* WiFi.begin was called in station mode
  wifiStatus,               \* WiFi.status() == WL_CONNECTED
  mqttConnected,            \* mqttClient.connected()
  mqttCreds,                \* main.cpp: mqttCreds
  buttonWasPressed,         \* main.cpp: buttonWasPressed
  msSinceButtonPressStart,  \* millis() - buttonPressStart
  msSinceReconnectAttempt,  \* millis() - lastReconnectAttempt
  msSinceTelemetry,         \* millis() - lastTelemetryTime
  msSinceJoinStart,         \* millis() - startTime of the running join wait
  tasks,                    \* the provisioningTask instances (a bag: tasks have no identity)
  response,                 \* status of the last /provision response (0: none)
  button,                   \* the reset button is physically down
  buttonSampled,            \* loop() has read the pin since it last changed
  msButtonHeld,             \* time the button has physically been down
  claimedSinceClear,        \* a claim succeeded since the store was last cleared
  wifiCreds,                \* setup(): WifiCredentials wifiCreds
  server,                   \* provisioning.cpp: server (nullptr or an instance)
  liveServers,              \* AsyncWebServer objects created and not deleted
  useTLS,                   \* main.cpp: useTLS
  mqttServer,               \* host and port given to mqttClient.setServer
  ledPin,                   \* digitalRead(LED_PIN) == HIGH
  published,                \* mqttClient operations of the loopTask's last step
  lastCall                  \* SpecApi: the last call of the module's client

bootVars == <<bootPath, result, claimCalls>>

netVars == <<staBegun, wifiStatus, mqttConnected>>

clockVars ==
  <<msSinceButtonPressStart, msSinceReconnectAttempt, msSinceTelemetry,
    msSinceJoinStart>>

buttonVars == <<button, buttonSampled, msButtonHeld>>

serverVars == <<server, liveServers>>

\* The broker client's configuration and the command channel.
chanVars == <<useTLS, mqttServer, ledPin, published>>

vars ==
  <<store, pc, bootPath, result, claimCalls, isProvisioning, staBegun,
    wifiStatus, mqttConnected, mqttCreds, buttonWasPressed,
    msSinceButtonPressStart, msSinceReconnectAttempt, msSinceTelemetry,
    msSinceJoinStart, tasks, response, button, buttonSampled,
    msButtonHeld, claimedSinceClear, wifiCreds, server, liveServers, useTLS,
    mqttServer, ledPin, published, lastCall>>

\* No call has been made through a module's interface.
NoCall == [fn |-> ""]

\* mqttClient before setServer was called.
NoServer == [host |-> "", port |-> 0]

\* A factory-fresh device at power-on: empty store, RAM zero-initialised.
Init ==
  /\ store = EmptyStore
  /\ pc = "boot"
  /\ bootPath = ""
  /\ result = NoResult
  /\ claimCalls = 0
  /\ isProvisioning = FALSE
  /\ staBegun = FALSE
  /\ wifiStatus = FALSE
  /\ mqttConnected = FALSE
  /\ mqttCreds = NoMqtt
  /\ buttonWasPressed = FALSE
  /\ msSinceButtonPressStart = 0
  /\ msSinceReconnectAttempt = 0
  /\ msSinceTelemetry = 0
  /\ msSinceJoinStart = 0
  /\ tasks = EmptyBag
  /\ response = 0
  /\ button = FALSE
  /\ buttonSampled = TRUE
  /\ msButtonHeld = 0
  /\ claimedSinceClear = FALSE
  /\ wifiCreds = NoWifi
  /\ server = "nullptr"
  /\ liveServers = 0
  /\ useTLS = FALSE
  /\ mqttServer = NoServer
  /\ ledPin = FALSE
  /\ published = <<>>
  /\ lastCall = NoCall

\* ESP.restart(): every task dies and RAM is re-initialised; the store and
\* the physical button stay as they are.
Restart ==
  /\ pc' = "boot"
  /\ bootPath' = ""
  /\ result' = NoResult
  /\ claimCalls' = 0
  /\ isProvisioning' = FALSE
  /\ staBegun' = FALSE
  /\ wifiStatus' = FALSE
  /\ mqttConnected' = FALSE
  /\ mqttCreds' = NoMqtt
  /\ buttonWasPressed' = FALSE
  /\ msSinceButtonPressStart' = 0
  /\ msSinceReconnectAttempt' = 0
  /\ msSinceTelemetry' = 0
  /\ msSinceJoinStart' = 0
  /\ tasks' = EmptyBag
  /\ response' = 0
  /\ wifiCreds' = NoWifi
  /\ server' = "nullptr"
  /\ liveServers' = 0
  /\ useTLS' = FALSE
  /\ mqttServer' = NoServer
  /\ ledPin' = FALSE
  /\ published' = <<>>
  /\ UNCHANGED <<button, buttonSampled, msButtonHeld, lastCall>>

\* provisioningStop() lines 234-238: the instances left after
\* if (server) { server->end(); delete server; }
LiveAfterStop == IF server # "nullptr" THEN liveServers - 1 ELSE liveServers

\* provisioningStop(): WiFi.softAPdisconnect(true) follows the teardown.
provisioningStop ==
  /\ isProvisioning' = FALSE
  /\ server' = "nullptr"
  /\ liveServers' = LiveAfterStop

\* A start that does not stop the running instance first.
provisioningStartLeaks ==
  /\ isProvisioning' = TRUE
  /\ server' = "AsyncWebServer"
  /\ liveServers' = liveServers + 1
  /\ staBegun' = FALSE
  /\ wifiStatus' = FALSE

\* provisioningStart(callback): provisioningStop() first when already
\* active; WiFi.mode(WIFI_AP) ends station mode; server = new AsyncWebServer.
provisioningStart ==
  /\ isProvisioning' = TRUE
  /\ server' = "AsyncWebServer"
  /\ liveServers' = (IF isProvisioning THEN LiveAfterStop ELSE liveServers) + 1
  /\ staBegun' = FALSE
  /\ wifiStatus' = FALSE

\* ---------------------------------------------------------- setup()

\* A pending-claim branch that also runs when no claim token is stored.
PendingClaimFoundAlways(s) == TRUE

\* setup() line 67: claimToken.length() > 0
PendingClaimFound(s) == getString(s, "claim_token") # ""

\* A credential check that forgets the broker record.
StoredCredentialsUsableWifiOnly(s) ==
  storageIsProvisioned(s) /\ storageLoadWifi(s).isValid

\* setup() lines 131-136: provisioned, and both loaded records valid.
StoredCredentialsUsable(s) ==
  /\ storageIsProvisioned(s)
  /\ storageLoadWifi(s).isValid
  /\ storageLoadMqtt(s).isValid

\* setup() up to its first blocking call: read the pending claim and branch.
SetupBegin ==
  /\ pc = "boot"
  /\ IF PendingClaimFound(store)
       THEN IF storageLoadWifi(store).isValid
              THEN /\ pc' = "setup_join"
                   /\ bootPath' = "pending"
                   /\ staBegun' = TRUE
                   /\ UNCHANGED <<isProvisioning, wifiStatus, mqttCreds,
                                  serverVars>>
              ELSE /\ pc' = "setup_return"
                   /\ bootPath' = "pending_invalid_wifi"
                   /\ provisioningStart
                   /\ UNCHANGED mqttCreds
       ELSE IF storageIsProvisioned(store)
              THEN /\ mqttCreds' = storageLoadMqtt(store)
                   /\ IF StoredCredentialsUsable(store)
                        THEN /\ pc' = "setup_wifi"
                             /\ bootPath' = "provisioned"
                             /\ staBegun' = TRUE
                             /\ UNCHANGED <<isProvisioning, wifiStatus,
                                            serverVars>>
                        ELSE /\ pc' = "setup_return"
                             /\ bootPath' = "invalid_credentials"
                             /\ provisioningStart
              ELSE /\ pc' = "setup_return"
                   /\ bootPath' = "unprovisioned"
                   /\ provisioningStart
                   /\ UNCHANGED mqttCreds
  /\ wifiCreds' =
       IF PendingClaimFound(store) \/ storageIsProvisioned(store)
         THEN storageLoadWifi(store)
         ELSE wifiCreds
  /\ msSinceJoinStart' = 0
  /\ UNCHANGED <<store, result, claimCalls, mqttConnected, buttonWasPressed,
                 msSinceButtonPressStart, msSinceReconnectAttempt,
                 msSinceTelemetry, tasks, response, buttonVars,
                 claimedSinceClear, chanVars, lastCall>>

\* setup() lines 80-122: the join wait of the pending-claim branch ends.
SetupJoinExit ==
  /\ pc = "setup_join"
  /\ wifiStatus \/ msSinceJoinStart >= SETUP_JOIN_TIMEOUT_MS
  /\ msSinceJoinStart' = 0
  /\ IF wifiStatus
       THEN /\ pc' = "setup_claim"
            /\ bootPath' = "joined"
            /\ claimCalls' = claimCalls + 1
            /\ UNCHANGED <<store, isProvisioning, staBegun, wifiStatus,
                           claimedSinceClear, serverVars>>
       ELSE /\ pc' = "setup_return"
            /\ bootPath' = "join_timeout"
            /\ store' = storageClear(store)
            /\ claimedSinceClear' = FALSE
            /\ provisioningStart
            /\ UNCHANGED claimCalls
  /\ UNCHANGED <<result, mqttConnected, mqttCreds, buttonWasPressed,
                 msSinceButtonPressStart, msSinceReconnectAttempt,
                 msSinceTelemetry, tasks, response, buttonVars, wifiCreds,
                 chanVars, lastCall>>

\* A claim-success branch that leaves the pending claim in the store.
ClaimSucceededKeepsPending(s, m) == storageSaveMqtt(s, m)

\* setup() lines 95-105: persist the broker record, remove the pending claim.
ClaimSucceeded(s, m) ==
  remove(remove(storageSaveMqtt(s, m), "claim_token"), "claim_url")

\* A claim-failure branch that only removes the pending claim.
ClaimFailedKeepsCredentials(s) == remove(remove(s, "claim_token"), "claim_url")

\* setup() lines 112-117: clear the store, remove the pending claim.
ClaimFailed(s) == remove(remove(storageClear(s), "claim_token"), "claim_url")

\* setup() lines 91-118: claimDevice returns.
SetupClaimReturn(r) ==
  /\ pc = "setup_claim"
  /\ result' = claimDevice(r)
  /\ pc' = "setup_return"
  /\ IF result'.success
       THEN /\ bootPath' = "claim_ok"
            /\ store' = ClaimSucceeded(store, result'.mqtt)
            /\ mqttCreds' = result'.mqtt
            /\ claimedSinceClear' = TRUE
            /\ UNCHANGED <<isProvisioning, staBegun, wifiStatus, serverVars>>
       ELSE /\ bootPath' = "claim_failed"
            /\ store' = ClaimFailed(store)
            /\ claimedSinceClear' = FALSE
            /\ provisioningStart
            /\ UNCHANGED mqttCreds
  /\ UNCHANGED <<claimCalls, mqttConnected, buttonWasPressed, clockVars, tasks,
                 response, buttonVars, wifiCreds, chanVars, lastCall>>

\* connectToWiFi() called from setup(): its join wait ends.
SetupWifiExit ==
  /\ pc = "setup_wifi"
  /\ wifiStatus \/ msSinceJoinStart >= WIFI_CONNECT_TIMEOUT_MS
  /\ pc' = "setup_return"
  /\ msSinceJoinStart' = 0
  /\ UNCHANGED <<store, bootVars, isProvisioning, netVars, mqttCreds,
                 buttonWasPressed, msSinceButtonPressStart,
                 msSinceReconnectAttempt, msSinceTelemetry, tasks, response,
                 buttonVars, claimedSinceClear, wifiCreds, serverVars,
                 chanVars, lastCall>>

\* setup() returns; its locals are gone and loop() starts.
SetupReturn ==
  /\ pc = "setup_return"
  /\ pc' = "loop"
  /\ bootPath' = ""
  /\ result' = NoResult
  /\ wifiCreds' = NoWifi
  /\ UNCHANGED <<store, claimCalls, isProvisioning, netVars, mqttCreds,
                 buttonWasPressed, clockVars, tasks, response, buttonVars,
                 claimedSinceClear, serverVars, chanVars, lastCall>>

\* ------------------------------------------- provisioning server

\* A task created before the response is sent.
NewTaskBeforeResponse(b) ==
  [pc |-> "save_wifi", params |-> b, responded |-> FALSE, wrote |-> <<>>]

\* handleProvision lines 160-172: request->send(200, ...) comes before
\* xTaskCreate, so the task starts with its response already sent.  wrote
\* lists the store keys the task has written so far, in order.
NewTask(b) ==
  [pc |-> "save_wifi", params |-> b, responded |-> TRUE, wrote |-> <<>>]

\* The task t of the bag moves to position p, having written the keys ks.
TaskAt(t, p, ks) ==
  (tasks (-) SetToBag({t}))
    (+) SetToBag({[t EXCEPT !.pc = p, !.wrote = t.wrote \o ks]})

\* The HTTP server exists and a client can have joined the access point:
\* provisioningStart() has returned to setup() and setup() has returned.
ServerReachable == isProvisioning /\ pc # "setup_return"

\* handleProvision(request, data, ...): one POST /provision with body b,
\* served by the HTTP server that provisioningStart() created.
HandleProvision(b) ==
  /\ ServerReachable
  /\ IF Rejected(b)
       THEN /\ response' = 400
            /\ UNCHANGED tasks
       ELSE /\ BagCardinality(tasks) < MaxTasks
            /\ response' = 200
            /\ tasks' = tasks (+) SetToBag({NewTask(b)})
  /\ UNCHANGED <<store, pc, bootVars, isProvisioning, netVars, mqttCreds,
                 buttonWasPressed, clockVars, buttonVars, claimedSinceClear,
                 wifiCreds, serverVars, chanVars, lastCall>>

TaskUnchanged ==
  UNCHANGED <<pc, bootVars, isProvisioning, netVars, mqttCreds,
              buttonWasPressed, clockVars, response, buttonVars,
              claimedSinceClear, wifiCreds, serverVars, chanVars, lastCall>>

\* provisioningTask line 112: storageSaveWifi(ssid, password)
TaskSaveWifi(t) ==
  /\ t.pc = "save_wifi"
  /\ store' = storageSaveWifi(store, t.params.ssid, t.params.password)
  /\ tasks' = TaskAt(t, "put_token", <<"wifi_ssid", "wifi_pass">>)
  /\ TaskUnchanged

\* provisioningTask line 117: putString("claim_token", claimToken)
TaskPutToken(t) ==
  /\ t.pc = "put_token"
  /\ store' = putString(store, "claim_token", t.params.claimToken)
  /\ tasks' = TaskAt(t, "put_url", <<"claim_token">>)
  /\ TaskUnchanged

\* provisioningTask line 118: putString("claim_url", serverUrl)
TaskPutUrl(t) ==
  /\ t.pc = "put_url"
  /\ store' = putString(store, "claim_url", t.params.serverUrl)
  /\ tasks' = TaskAt(t, "restart", <<"claim_url">>)
  /\ TaskUnchanged

\* provisioningTask lines 121-133: blink, delay, ESP.restart()
TaskRestart(t) ==
  /\ t.pc = "restart"
  /\ Restart
  /\ UNCHANGED <<store, claimedSinceClear>>

\* ------------------------------------------------- broker address

\* String::startsWith(prefix)
startsWith(s, prefix) ==
  Len(s) >= Len(prefix) /\ SubSeq(s, 1, Len(prefix)) = prefix

\* String::substring(beginIndex), with the code's 0-based index
substring(s, beginIndex) == SubSeq(s, beginIndex + 1, Len(s))

\* String::substring(beginIndex, endIndex): endIndex is exclusive
substringTo(s, beginIndex, endIndex) == SubSeq(s, beginIndex + 1, endIndex)

\* String::indexOf(ch): 0-based position of the first ch, -1 when none
indexOf(s, ch) ==
  LET at == {i \in 1..Len(s) : SubSeq(s, i, i) = ch}
  IN  IF at = {} THEN 0 - 1
      ELSE (CHOOSE i \in at : \A j \in at : i <= j) - 1

Digits ==
  [c \in {"0", "1", "2", "3", "4", "5", "6", "7", "8", "9"} |->
     CASE c = "0" -> 0 [] c = "1" -> 1 [] c = "2" -> 2 [] c = "3" -> 3
       [] c = "4" -> 4 [] c = "5" -> 5 [] c = "6" -> 6 [] c = "7" -> 7
       [] c = "8" -> 8 [] c = "9" -> 9]

RECURSIVE DigitsValue(_, _)
\* The value of the leading decimal digits of s, after the digits read so far.
DigitsValue(s, acc) ==
  IF Len(s) > 0 /\ Head(s) \in DOMAIN Digits
    THEN DigitsValue(Tail(s), 10 * acc + Digits[Head(s)])
    ELSE acc

\* String::toInt(): atol, the leading digits (an optional minus first), 0
\* when there is none.  The texts of this model stay far below 2^31.
toInt(s) ==
  IF Len(s) > 0 /\ Head(s) = "-"
    THEN 0 - DigitsValue(Tail(s), 0)
    ELSE DigitsValue(s, 0)

\* A parser that keeps the scheme's default port.
ParseBrokerIgnoresPort(broker) ==
  LET secure == startsWith(broker, "mqtts://")
      rest == IF startsWith(broker, "mqtt://") THEN substring(broker, 7)
              ELSE IF secure THEN substring(broker, 8)
              ELSE broker
      colonPos == indexOf(rest, ":")
  IN  [host |-> IF colonPos > 0 THEN substringTo(rest, 0, colonPos) ELSE rest,
       port |-> IF secure THEN 8883 ELSE 1883,
       useTLS |-> secure]

\* connectToMQTT() lines 245-267: scheme prefix, then host and port.
ParseBroker(broker) ==
  LET plain == startsWith(broker, "mqtt://")
      secure == ~plain /\ startsWith(broker, "mqtts://")
      rest == IF plain THEN substring(broker, 7)
              ELSE IF secure THEN substring(broker, 8)
              ELSE broker
      colonPos == indexOf(rest, ":")
  IN  [host |-> IF colonPos > 0 THEN substringTo(rest, 0, colonPos) ELSE rest,
       port |-> IF colonPos > 0 THEN toInt(substring(rest, colonPos + 1))
                ELSE IF secure THEN 8883 ELSE 1883,
       useTLS |-> secure]

\* connectToMQTT() line 284: mqttClient.setServer(host.c_str(), port)
setServer(broker) ==
  [host |-> ParseBroker(broker).host, port |-> ParseBroker(broker).port]

\* -------------------------------------------------- command channel

\* Messages on the command topic: whether the payload parses as JSON, and
\* the fields of the command (Absent: the key is missing).  JSON values are
\* written as their JSON text.
CommandActions == {Absent, "", "set_state", "toggle-led", "reboot"}

Messages ==
  [json : {TRUE}, action : CommandActions, correlationId : {Absent, "c1", "c2"},
   params : [led : {Absent, "true", "false"},
             state : {Absent, "true", "false", "\"on\""}]]
    \cup {[json |-> FALSE, action |-> Absent, correlationId |-> Absent,
           params |-> [led |-> Absent, state |-> Absent]]}

\* ArduinoJson: variant | default for a bool (the default when the value is
\* no boolean); as<bool>() of a boolean is the same with default false.
BoolOr(v, default) == IF v \in {"true", "false"} THEN v = "true" ELSE default

\* handleCommand line 404: what success is for an unknown command.
UnknownCommandFails == FALSE

UnknownCommandSuccess == TRUE

\* A toggle that inverts the LED instead of applying params.state.
ToggleStateInverts(params, led) == ~led

\* handleCommand line 399: bool state = params["state"] | false
ToggleState(params, led) == BoolOr(params.state, FALSE)

\* A set_state that drives the LED from every key of params, not led alone.
LedAfterAnyKey(command, led) ==
  CASE command.action = "set_state" ->
         IF command.params.state # Absent
           THEN BoolOr(command.params.state, FALSE)
           ELSE IF command.params.led # Absent
                  THEN BoolOr(command.params.led, FALSE)
                  ELSE led
    [] command.action = "toggle-led" -> ToggleState(command.params, led)
    [] OTHER -> led

\* handleCommand lines 388-405: the level of LED_PIN after the dispatch.
LedAfter(command, led) ==
  CASE command.action = "set_state" ->
         IF command.params.led # Absent
           THEN BoolOr(command.params.led, FALSE)
           ELSE led
    [] command.action = "toggle-led" -> ToggleState(command.params, led)
    [] OTHER -> led

\* handleCommand lines 385-405: success and errorMsg after the dispatch.
Dispatch(command) ==
  IF command.action \in {"set_state", "toggle-led"}
    THEN [success |-> TRUE, errorMsg |-> ""]
    ELSE [success |-> UnknownCommandSuccess, errorMsg |-> "Unknown command"]

\* handleCommand lines 408-424: the document published on topicAck.
Ack(command, led) ==
  LET d == Dispatch(command)
  IN  [correlationId |-> command.correlationId,
       status |-> IF d.success THEN "success" ELSE "error",
       error |-> IF ~d.success /\ Len(d.errorMsg) > 0 THEN d.errorMsg
                 ELSE Absent,
       led |-> LedAfter(command, led)]

\* A callback that hands every payload to handleCommand, parsed or not.
mqttCallbackDispatchesAll(m) ==
  /\ ledPin' = LedAfter(m, ledPin)
  /\ published' = <<Ack(m, ledPin)>>

\* mqttCallback(topic, payload, length): a payload that does not parse is
\* dropped; else handleCommand(doc) drives the LED and publishes the ack.
mqttCallback(m) ==
  IF m.json
    THEN /\ ledPin' = LedAfter(m, ledPin)
         /\ published' = <<Ack(m, ledPin)>>
    ELSE /\ published' = <<>>
         /\ UNCHANGED ledPin

\* -------------------------------------------------------------- loop()

\* The operations on mqttClient, as published keeps them.

\* connectToMQTT() lines 287-301: mqttClient.connect(clientId, username,
\* password, willTopic, willQos, willRetain, willMessage)
connect(creds) ==
  [op |-> "connect", clientId |-> creds.clientId,
   willTopic |-> creds.topicStatus, willQos |-> 1, willRetain |-> TRUE,
   willMessage |-> "offline"]

\* connectToMQTT() line 305: mqttClient.subscribe(mqttCreds.topicCommands)
subscribe(creds) == [op |-> "subscribe", topic |-> creds.topicCommands]

\* sendStatus(online): publish(mqttCreds.topicStatus, buffer, true)
sendStatus(online) ==
  [op |-> "publish", topic |-> mqttCreds.topicStatus,
   payload |-> IF online THEN "online" ELSE "offline", retained |-> TRUE]

\* sendTelemetry(): publish(mqttCreds.topicTelemetry, buffer)
sendTelemetry ==
  [op |-> "publish", topic |-> mqttCreds.topicTelemetry,
   payload |-> "telemetry", retained |-> FALSE]

\* A telemetry timer that never runs out.
TelemetryDueNever == FALSE

\* loop() line 178: now - lastTelemetryTime > TELEMETRY_INTERVAL_MS
TelemetryDue == msSinceTelemetry > TELEMETRY_INTERVAL_MS

\* loop() lines 177-179: the telemetry timer.
TelemetryPart ==
  msSinceTelemetry' = IF TelemetryDue THEN 0 ELSE msSinceTelemetry

\* A telemetry step that publishes whether or not the client is connected.
TelemetrySentUnconnected(connected) ==
  IF TelemetryDue THEN <<sendTelemetry>> ELSE <<>>

\* loop() lines 178-183: what the telemetry step publishes.
TelemetrySent(connected) ==
  IF TelemetryDue /\ connected THEN <<sendTelemetry>> ELSE <<>>

\* checkFactoryReset lines 440-441: the hold threshold is reached.
ResetHoldReached ==
  /\ button
  /\ buttonWasPressed
  /\ msSinceButtonPressStart >= RESET_HOLD_TIME_MS

\* checkFactoryReset lines 435-439 and 460-462, when no reset is triggered.
\* buttonPressStart is read only while buttonWasPressed: it is kept 0 else.
ButtonPart ==
  /\ buttonWasPressed' = button
  /\ msSinceButtonPressStart' =
       IF button /\ buttonWasPressed THEN msSinceButtonPressStart ELSE 0

\* A provisioning check that never holds loop() back.
provisioningIsActiveNever == FALSE

\* provisioningIsActive(): return isProvisioning
provisioningIsActive == isProvisioning

\* A link check that never sees the link down.
WiFiDisconnectedNever == FALSE

\* loop() line 159: WiFi.status() != WL_CONNECTED
WiFiDisconnected == ~wifiStatus

\* A cooldown that is always over.
ReconnectDueAlways == TRUE

\* A cooldown that is twice as long.
ReconnectDueDoubled == msSinceReconnectAttempt > 2 * MQTT_RECONNECT_DELAY_MS

\* loop() line 168: now - lastReconnectAttempt > MQTT_RECONNECT_DELAY_MS
ReconnectDue == msSinceReconnectAttempt > MQTT_RECONNECT_DELAY_MS

\* loop() lines 153-183, after checkFactoryReset() returned.
LoopWork ==
  IF provisioningIsActive
    THEN /\ published' = <<>>
         /\ UNCHANGED <<pc, netVars, msSinceReconnectAttempt, msSinceTelemetry,
                        msSinceJoinStart, useTLS, mqttServer>>
    ELSE IF WiFiDisconnected
      THEN \* connectToWiFi(): returns at once without valid credentials
           /\ published' = <<>>
           /\ IF storageLoadWifi(store).isValid
                THEN /\ pc' = "loop_wifi"
                     /\ staBegun' = TRUE
                     /\ msSinceJoinStart' = 0
                     /\ UNCHANGED <<wifiStatus, mqttConnected,
                                    msSinceReconnectAttempt, msSinceTelemetry,
                                    useTLS, mqttServer>>
                ELSE UNCHANGED <<pc, netVars, msSinceReconnectAttempt,
                                 msSinceTelemetry, msSinceJoinStart, useTLS,
                                 mqttServer>>
      ELSE IF ~mqttConnected
        THEN IF ReconnectDue
               THEN /\ msSinceReconnectAttempt' = 0
                    /\ IF mqttCreds.isValid
                         THEN \* connectToMQTT() lines 244-298, then it
                              \* blocks in mqttClient.connect(...)
                              /\ useTLS' = ParseBroker(mqttCreds.broker).useTLS
                              /\ mqttServer' = setServer(mqttCreds.broker)
                              /\ published' = <<connect(mqttCreds)>>
                              /\ pc' = "loop_mqtt"
                              /\ UNCHANGED msSinceTelemetry
                         ELSE /\ TelemetryPart
                              /\ published' = TelemetrySent(FALSE)
                              /\ UNCHANGED <<pc, useTLS, mqttServer>>
                    /\ UNCHANGED <<netVars, msSinceJoinStart>>
               ELSE /\ TelemetryPart
                    /\ published' = TelemetrySent(FALSE)
                    /\ UNCHANGED <<pc, netVars, msSinceReconnectAttempt,
                                   msSinceJoinStart, useTLS, mqttServer>>
        ELSE \* mqttClient.loop(), then the telemetry timer
             /\ TelemetryPart
             /\ published' = TelemetrySent(TRUE)
             /\ UNCHANGED <<pc, netVars, msSinceReconnectAttempt,
                            msSinceJoinStart, useTLS, mqttServer>>

\* A loop() whose button check comes after the early returns of lines
\* 154-163: it runs only in a tick that gets past them.
LoopTickChecksLate ==
  /\ pc = "loop"
  /\ IF provisioningIsActive \/ WiFiDisconnected
       THEN /\ LoopWork
            /\ UNCHANGED <<buttonWasPressed, msSinceButtonPressStart,
                           buttonSampled>>
       ELSE /\ buttonSampled' = TRUE
            /\ IF ResetHoldReached
                 THEN /\ pc' = "reset_blink"
                      /\ published' = <<>>
                      /\ UNCHANGED <<netVars, buttonWasPressed, clockVars,
                                     useTLS, mqttServer>>
                 ELSE /\ ButtonPart
                      /\ LoopWork
  /\ UNCHANGED <<store, bootVars, isProvisioning, mqttCreds, tasks, response,
                 button, msButtonHeld, claimedSinceClear, wifiCreds,
                 serverVars, ledPin, lastCall>>

\* One iteration of loop(), up to its first blocking call: the messages
\* published are those of this iteration.
LoopTick ==
  /\ pc = "loop"
  /\ buttonSampled' = TRUE
  /\ IF ResetHoldReached
       THEN /\ pc' = "reset_blink"
            /\ published' = <<>>
            /\ UNCHANGED <<netVars, buttonWasPressed, clockVars, useTLS,
                           mqttServer>>
       ELSE /\ ButtonPart
            /\ LoopWork
  /\ UNCHANGED <<store, bootVars, isProvisioning, mqttCreds, tasks, response,
                 button, msButtonHeld, claimedSinceClear, wifiCreds,
                 serverVars, ledPin, lastCall>>

\* connectToWiFi() called from loop(): its join wait ends, loop() returns.
LoopWifiExit ==
  /\ pc = "loop_wifi"
  /\ wifiStatus \/ msSinceJoinStart >= WIFI_CONNECT_TIMEOUT_MS
  /\ pc' = "loop"
  /\ msSinceJoinStart' = 0
  /\ UNCHANGED <<store, bootVars, isProvisioning, netVars, mqttCreds,
                 buttonWasPressed, msSinceButtonPressStart,
                 msSinceReconnectAttempt, msSinceTelemetry, tasks, response,
                 buttonVars, claimedSinceClear, wifiCreds, serverVars,
                 chanVars, lastCall>>

\* A connect that returns only once the session is established.
MqttConnectReturnsOnlyConnected(ok) ==
  /\ pc = "loop_mqtt"
  /\ ok
  /\ wifiStatus
  /\ mqttConnected' = ok
  /\ pc' = "loop"
  /\ TelemetryPart
  /\ published' = <<subscribe(mqttCreds), sendStatus(TRUE)>>
                     \o TelemetrySent(ok)
  /\ ledPin' = FALSE
  /\ UNCHANGED <<store, bootVars, isProvisioning, staBegun, wifiStatus,
                 mqttCreds, buttonWasPressed, msSinceButtonPressStart,
                 msSinceReconnectAttempt, msSinceJoinStart, tasks, response,
                 buttonVars, claimedSinceClear, wifiCreds, serverVars, useTLS,
                 mqttServer, lastCall>>

\* A connect procedure that publishes the status before it subscribes.
ConnectedOpsStatusFirst == <<sendStatus(TRUE), subscribe(mqttCreds)>>

\* connectToMQTT() lines 302-309: subscribe, then sendStatus(true)
ConnectedOps == <<subscribe(mqttCreds), sendStatus(TRUE)>>

\* connectToMQTT() lines 299-320: mqttClient.connect returns ok (the blink
\* after a success leaves the LED off); then the rest of the loop()
\* iteration (lines 176-183).
MqttConnectReturn(ok) ==
  /\ pc = "loop_mqtt"
  /\ ok => wifiStatus
  /\ mqttConnected' = ok
  /\ pc' = "loop"
  /\ TelemetryPart
  /\ published' = (IF ok THEN ConnectedOps ELSE <<>>) \o TelemetrySent(ok)
  /\ ledPin' = IF ok THEN FALSE ELSE ledPin
  /\ UNCHANGED <<store, bootVars, isProvisioning, staBegun, wifiStatus,
                 mqttCreds, buttonWasPressed, msSinceButtonPressStart,
                 msSinceReconnectAttempt, msSinceJoinStart, tasks, response,
                 buttonVars, claimedSinceClear, wifiCreds, serverVars, useTLS,
                 mqttServer, lastCall>>

\* ------------------------------------------------------ factory reset

\* checkFactoryReset lines 444-453: blink, then storageClear()
FactoryResetClear ==
  /\ pc = "reset_blink"
  /\ store' = storageClear(store)
  /\ claimedSinceClear' = FALSE
  /\ pc' = "reset_delay"
  /\ ledPin' = FALSE
  /\ UNCHANGED <<bootVars, isProvisioning, netVars, mqttCreds,
                 buttonWasPressed, clockVars, tasks, response, buttonVars,
                 wifiCreds, serverVars, useTLS, mqttServer, published, lastCall>>

\* checkFactoryReset lines 456-458: delay(1000), then ESP.restart()
FactoryResetRestart ==
  /\ pc = "reset_delay"
  /\ Restart
  /\ UNCHANGED <<store, claimedSinceClear>>

\* -------------------------------------------------------- environment

\* loop() is not inside a blocking call or delay.
LoopPolling == pc = "loop"

\* The button changes slower than an unblocked loop() iterates: between two
\* changes loop() reads the pin, unless the loopTask is blocked.
ButtonMayChange == buttonSampled \/ ~LoopPolling

ButtonPress ==
  /\ ~button
  /\ ButtonMayChange
  /\ button' = TRUE
  /\ buttonSampled' = FALSE
  /\ msButtonHeld' = 0
  /\ UNCHANGED <<store, pc, bootVars, isProvisioning, netVars, mqttCreds,
                 buttonWasPressed, clockVars, tasks, response,
                 claimedSinceClear, wifiCreds, serverVars, chanVars, lastCall>>

ButtonRelease ==
  /\ button
  /\ ButtonMayChange
  /\ button' = FALSE
  /\ buttonSampled' = FALSE
  /\ msButtonHeld' = 0
  /\ UNCHANGED <<store, pc, bootVars, isProvisioning, netVars, mqttCreds,
                 buttonWasPressed, clockVars, tasks, response,
                 claimedSinceClear, wifiCreds, serverVars, chanVars, lastCall>>

EnvUnchanged ==
  UNCHANGED <<store, pc, bootVars, isProvisioning, mqttCreds,
              buttonWasPressed, clockVars, tasks, response, buttonVars,
              claimedSinceClear, wifiCreds, serverVars, chanVars, lastCall>>

\* The station joins the network WiFi.begin named.
WifiUp ==
  /\ staBegun
  /\ ~wifiStatus
  /\ wifiStatus' = TRUE
  /\ UNCHANGED <<staBegun, mqttConnected>>
  /\ EnvUnchanged

\* The network link is lost.
WifiDown ==
  /\ wifiStatus
  /\ wifiStatus' = FALSE
  /\ UNCHANGED <<staBegun, mqttConnected>>
  /\ EnvUnchanged

\* The broker session is lost.
MqttDrop ==
  /\ mqttConnected
  /\ mqttConnected' = FALSE
  /\ UNCHANGED <<staBegun, wifiStatus>>
  /\ EnvUnchanged

\* Power is cut and restored (or the EN pin is pulsed) while the device is
\* idle: not inside setup(), a factory reset or a provisioning write.
PowerCycle ==
  /\ pc = "loop"
  /\ tasks = EmptyBag
  /\ Restart
  /\ UNCHANGED <<store, claimedSinceClear>>

\* An elapsed time compared with >= limit, one quantum later.
AdvanceUntil(c, limit) == IF c >= limit THEN c ELSE c + Quantum

\* An elapsed time compared with > limit, one quantum later.
AdvancePast(c, limit) == IF c > limit THEN c ELSE c + Quantum

JoinLimit ==
  IF pc = "setup_join" THEN SETUP_JOIN_TIMEOUT_MS ELSE WIFI_CONNECT_TIMEOUT_MS

\* lastReconnectAttempt and lastTelemetryTime are read by loop() only past
\* its provisioningIsActive() return, and isProvisioning is reset only by a
\* restart, which zeroes them: while provisioning they are left at rest.
TimersLive == ~isProvisioning

\* millis() advances by one quantum.  buttonPressStart is read only while
\* buttonWasPressed, startTime only inside a join wait.
Tick ==
  /\ msSinceButtonPressStart' =
       IF buttonWasPressed
         THEN AdvanceUntil(msSinceButtonPressStart, RESET_HOLD_TIME_MS)
         ELSE msSinceButtonPressStart
  /\ msSinceReconnectAttempt' =
       IF TimersLive
         THEN AdvancePast(msSinceReconnectAttempt, MQTT_RECONNECT_DELAY_MS)
         ELSE msSinceReconnectAttempt
  /\ msSinceTelemetry' =
       IF TimersLive
         THEN AdvancePast(msSinceTelemetry, TELEMETRY_INTERVAL_MS)
         ELSE msSinceTelemetry
  /\ msSinceJoinStart' =
       IF pc \in {"setup_join", "setup_wifi", "loop_wifi"}
         THEN AdvanceUntil(msSinceJoinStart, JoinLimit)
         ELSE msSinceJoinStart
  /\ msButtonHeld' =
       IF button THEN AdvanceUntil(msButtonHeld, RESET_HOLD_TIME_MS)
                 ELSE msButtonHeld
  /\ UNCHANGED <<store, pc, bootVars, isProvisioning, netVars, mqttCreds,
                 buttonWasPressed, tasks, response, button, buttonSampled,
                 claimedSinceClear, wifiCreds, serverVars, chanVars, lastCall>>

\* --------------------------------------------------------------- spec

Next ==
  \/ SetupBegin
  \/ SetupJoinExit
  \/ \E r \in ClaimResponses : SetupClaimReturn(r)
  \/ SetupWifiExit
  \/ SetupReturn
  \/ \E b \in Bodies : HandleProvision(b)
  \/ \E t \in BagToSet(tasks) : TaskSaveWifi(t)
  \/ \E t \in BagToSet(tasks) : TaskPutToken(t)
  \/ \E t \in BagToSet(tasks) : TaskPutUrl(t)
  \/ \E t \in BagToSet(tasks) : TaskRestart(t)
  \/ LoopTick
  \/ LoopWifiExit
  \/ \E ok \in BOOLEAN : MqttConnectReturn(ok)
  \/ FactoryResetClear
  \/ FactoryResetRestart
  \/ ButtonPress
  \/ ButtonRelease
  \/ WifiUp
  \/ WifiDown
  \/ MqttDrop
  \/ PowerCycle
  \/ Tick

Spec == Init /\ [][Next]_vars

\* ------------------------------------------------- module interfaces
\*
\* SpecApi: a client calls the public functions of one module (storage.h,
\* claim.h, provisioning.h, the broker connection and the command callback
\* of main.cpp) in any order with any argument below.  pc names the module
\* under call; lastCall records the call made last and its arguments.

ApiModules == {"storage", "claim", "broker", "command", "server"}

\* A WPA2 pre-shared key written as 64 hexadecimal digits, and the longest
\* WPA2 passphrase (63 characters).
Psk64 == "0123456789abcdef0123456789abcdef0123456789abcdef0123456789abcdef"

Passphrase63 == SubSeq(Psk64, 1, 63)

WifiNames == {"", "netA"}

Passphrases == {"pwA", Passphrase63, Psk64}

BrokerRecordA ==
  [broker |-> "mqtts://host:8883", clientId |-> "client", username |-> "user",
   password |-> "pass", topicTelemetry |-> "t/tele", topicCommands |-> "t/cmd",
   topicAck |-> "t/ack", topicStatus |-> "t/status", tenantId |-> "tenant",
   deviceId |-> "device"]

\* Broker records to save: a complete one, one without a broker address,
\* and one whose device id is as long as a 64-character hash.
BrokerRecords ==
  {BrokerRecordA, [BrokerRecordA EXCEPT !.broker = ""],
   [BrokerRecordA EXCEPT !.deviceId = Psk64]}

\* Claim server answers whose error text is an empty string.
EmptyTextResponses ==
  { [code |-> 200, json |-> TRUE, success |-> FALSE, error |-> "",
     message |-> Absent, broker |-> Absent],
    [code |-> 401, json |-> TRUE, success |-> FALSE, error |-> Absent,
     message |-> "", broker |-> Absent] }

\* Broker addresses held by mqttCreds when connectToMQTT() is called.
BrokerAddresses ==
  {"mqtts://host:1884", "mqtts://host", "mqtt://host", "mqtt://host:1884",
   "host", "host:1884", "secure://host:1884", "secure://host", "plain://host"}

InitApi ==
  /\ pc \in ApiModules
  /\ store = EmptyStore
  /\ bootPath = ""
  /\ result = NoResult
  /\ claimCalls = 0
  /\ isProvisioning = FALSE
  /\ staBegun = FALSE
  /\ wifiStatus = FALSE
  /\ mqttConnected = FALSE
  /\ mqttCreds = NoMqtt
  /\ buttonWasPressed = FALSE
  /\ msSinceButtonPressStart = 0
  /\ msSinceReconnectAttempt = 0
  /\ msSinceTelemetry = 0
  /\ msSinceJoinStart = 0
  /\ tasks = EmptyBag
  /\ response = 0
  /\ button = FALSE
  /\ buttonSampled = TRUE
  /\ msButtonHeld = 0
  /\ claimedSinceClear = FALSE
  /\ wifiCreds = NoWifi
  /\ server = "nullptr"
  /\ liveServers = 0
  /\ useTLS = FALSE
  /\ mqttServer = NoServer
  /\ ledPin = FALSE
  /\ published = <<>>
  /\ lastCall = NoCall

\* What no function of these interfaces touches.
ApiUnchanged ==
  UNCHANGED <<pc, bootPath, claimCalls, mqttConnected, buttonWasPressed,
              clockVars, tasks, response, buttonVars, claimedSinceClear>>

\* storageSaveWifi(ssid, password)
ApiSaveWifi(ssid, password) ==
  /\ pc = "storage"
  /\ store' = storageSaveWifi(store, ssid, password)
  /\ lastCall' = [fn |-> "storageSaveWifi", ssid |-> ssid,
                  password |-> password]
  /\ ApiUnchanged
  /\ UNCHANGED <<result, isProvisioning, staBegun, wifiStatus, mqttCreds,
                 wifiCreds, serverVars, chanVars>>

\* creds = storageLoadWifi(), g following an array left unterminated
ApiLoadWifi(g) ==
  /\ pc = "storage"
  /\ wifiCreds' = storageLoadWifiWith(store, g)
  /\ lastCall' = [fn |-> "storageLoadWifi"]
  /\ ApiUnchanged
  /\ UNCHANGED <<store, result, isProvisioning, staBegun, wifiStatus,
                 mqttCreds, serverVars, chanVars>>

\* storageSaveMqtt(m.broker, ..., m.deviceId)
ApiSaveMqtt(m) ==
  /\ pc = "storage"
  /\ store' = storageSaveMqtt(store, m)
  /\ lastCall' = [fn |-> "storageSaveMqtt", m |-> m]
  /\ ApiUnchanged
  /\ UNCHANGED <<result, isProvisioning, staBegun, wifiStatus, mqttCreds,
                 wifiCreds, serverVars, chanVars>>

\* mqttCreds = storageLoadMqtt(), g following an array left unterminated
ApiLoadMqtt(g) ==
  /\ pc = "storage"
  /\ mqttCreds' = storageLoadMqttWith(store, g)
  /\ lastCall' = [fn |-> "storageLoadMqtt"]
  /\ ApiUnchanged
  /\ UNCHANGED <<store, result, isProvisioning, staBegun, wifiStatus,
                 wifiCreds, serverVars, chanVars>>

\* storageClear()
ApiClear ==
  /\ pc = "storage"
  /\ store' = storageClear(store)
  /\ lastCall' = [fn |-> "storageClear"]
  /\ ApiUnchanged
  /\ UNCHANGED <<result, isProvisioning, staBegun, wifiStatus, mqttCreds,
                 wifiCreds, serverVars, chanVars>>

\* result = claimDevice(serverUrl, claimToken), the server answering r
ApiClaimDevice(r) ==
  /\ pc = "claim"
  /\ result' = claimDevice(r)
  /\ lastCall' = [fn |-> "claimDevice", r |-> r]
  /\ ApiUnchanged
  /\ UNCHANGED <<store, isProvisioning, staBegun, wifiStatus, mqttCreds,
                 wifiCreds, serverVars, chanVars>>

\* connectToMQTT() lines 239-285 with mqttCreds holding the broker address
\* (main.cpp:107 and 133 assign it), up to mqttClient.connect.
ApiConnectToMQTT(broker) ==
  /\ pc = "broker"
  /\ mqttCreds' = [BrokerRecordA EXCEPT !.broker = broker] @@ [isValid |-> TRUE]
  /\ useTLS' = ParseBroker(broker).useTLS
  /\ mqttServer' = setServer(broker)
  /\ lastCall' = [fn |-> "connectToMQTT", broker |-> broker]
  /\ ApiUnchanged
  /\ UNCHANGED <<store, result, isProvisioning, staBegun, wifiStatus,
                 wifiCreds, serverVars, ledPin, published>>

\* mqttClient.loop() delivers the message m to mqttCallback
ApiMessage(m) ==
  /\ pc = "command"
  /\ mqttCallback(m)
  /\ lastCall' = [fn |-> "mqttCallback", m |-> m, led |-> ledPin]
  /\ ApiUnchanged
  /\ UNCHANGED <<store, result, isProvisioning, staBegun, wifiStatus,
                 mqttCreds, wifiCreds, serverVars, useTLS, mqttServer>>

\* provisioningStart(callback)
ApiProvisioningStart ==
  /\ pc = "server"
  /\ provisioningStart
  /\ lastCall' = [fn |-> "provisioningStart", wasActive |-> isProvisioning]
  /\ ApiUnchanged
  /\ UNCHANGED <<store, result, mqttCreds, wifiCreds, chanVars>>

\* provisioningStop()
ApiProvisioningStop ==
  /\ pc = "server"
  /\ provisioningStop
  /\ lastCall' = [fn |-> "provisioningStop", wasActive |-> isProvisioning]
  /\ ApiUnchanged
  /\ UNCHANGED <<store, result, staBegun, wifiStatus, mqttCreds, wifiCreds,
                 chanVars>>

NextApi ==
  \/ \E ssid \in WifiNames, password \in Passphrases :
       ApiSaveWifi(ssid, password)
  \/ \E g \in Garbage : ApiLoadWifi(g)
  \/ \E m \in BrokerRecords : ApiSaveMqtt(m)
  \/ \E g \in Garbage : ApiLoadMqtt(g)
  \/ ApiClear
  \/ \E r \in ClaimResponses \cup EmptyTextResponses : ApiClaimDevice(r)
  \/ \E broker \in BrokerAddresses : ApiConnectToMQTT(broker)
  \/ \E m \in Messages : ApiMessage(m)
  \/ ApiProvisioningStart
  \/ ApiProvisioningStop

SpecApi == InitApi /\ [][NextApi]_vars

\* -------------------------------------------------------------- claims

\* The ten broker fields of the store equal those of the record m.
BrokerPersisted(m) ==
  \A i \in 1..Len(MqttKeys) : store[MqttKeys[i]] = m[MqttFields[i]]

PendingClaimKeysAbsent ==
  store["claim_token"] = Absent /\ store["claim_url"] = Absent

\* C1: end-to-end success path.  A boot that finds no stored credentials
\* ends with provisioning active; a boot that found the PendingClaim a
\* /provision request wrote, joined the network and got a successful claim
\* ends with the claim's BrokerCredentials persisted (and the provisioned
\* flag set), the PendingClaim absent, provisioning not active, and the
\* controller holding the claimed credentials for the broker connection.
C1_ClaimSuccessPath ==
  /\ (pc = "setup_return" /\ bootPath = "unprovisioned") => isProvisioning
  /\ (pc = "setup_return" /\ bootPath = "claim_ok") =>
       /\ result.success
       /\ BrokerPersisted(result.mqtt)
       /\ storageIsProvisioned(store)
       /\ PendingClaimKeysAbsent
       /\ ~isProvisioning
       /\ mqttCreds = result.mqtt
       /\ mqttCreds.isValid

C1_Witness ==
  /\ pc = "setup_return"
  /\ bootPath = "claim_ok"
  /\ store["mqtt_broker"] = "mqtt://host"
  /\ store["wifi_ssid"] = "netA"

\* C2: a boot that found a PendingClaim and then failed (join timeout or
\* claim failure) ends with no valid WifiCredentials, no valid
\* BrokerCredentials, the provisioned flag false, the PendingClaim deleted,
\* and the provisioning server active.
C2_PendingClaimFailure ==
  (pc = "setup_return" /\ bootPath \in {"join_timeout", "claim_failed"}) =>
    /\ ~storageLoadWifi(store).isValid
    /\ ~storageLoadMqtt(store).isValid
    /\ ~storageIsProvisioned(store)
    /\ PendingClaimKeysAbsent
    /\ store = EmptyStore
    /\ isProvisioning

C2_Witness ==
  /\ pc = "setup_return"
  /\ bootPath = "claim_failed"
  /\ ~result.success
  /\ isProvisioning

C2_WitnessJoinTimeout ==
  /\ pc = "setup_return"
  /\ bootPath = "join_timeout"
  /\ isProvisioning

\* The branches of setup() entered with a PendingClaim in the store.
PendingBootPaths ==
  {"pending_invalid_wifi", "join_timeout", "claim_ok", "claim_failed"}

\* C3: every boot that found a PendingClaim ends with the PendingClaim
\* keys absent from the store, whatever the outcome (claim success, claim
\* failure, join timeout, or invalid stored network credentials).
C3_PendingClaimConsumed ==
  (pc = "setup_return" /\ bootPath \in PendingBootPaths) =>
    PendingClaimKeysAbsent

\* C4: a boot with no PendingClaim takes the join-network path if and only
\* if the provisioned flag is set and the stored WifiCredentials and
\* BrokerCredentials are both valid; otherwise it starts provisioning.
C4_BootWithoutPendingClaim ==
  (bootPath \in {"provisioned", "invalid_credentials", "unprovisioned"}) =>
    /\ getString(store, "claim_token") = ""
    /\ (bootPath = "provisioned") <=>
         /\ store["provisioned"] = "1"
         /\ getString(store, "wifi_ssid") # ""
         /\ getString(store, "mqtt_broker") # ""
    /\ (bootPath = "provisioned") =>
         /\ ~isProvisioning
         /\ staBegun
         /\ pc \in {"setup_wifi", "setup_return"}
    /\ (bootPath # "provisioned") =>
         /\ isProvisioning
         /\ pc = "setup_return"

C4_Witness ==
  /\ pc = "setup_wifi"
  /\ bootPath = "provisioned"
  /\ ~isProvisioning

C4_WitnessInvalid ==
  /\ pc = "setup_return"
  /\ bootPath = "invalid_credentials"
  /\ store["provisioned"] = "1"
  /\ isProvisioning

\* C5: the persisted provisioned flag is true only if a claim has succeeded
\* since the store was last cleared (claim-failure path, join-timeout path,
\* factory reset).
C5_ProvisionedOnlyAfterClaim ==
  storageIsProvisioned(store) => claimedSinceClear

\* A factory reset has cleared the store of a device that had claimed.
C5_Witness ==
  /\ pc = "reset_delay"
  /\ mqttCreds.isValid
  /\ ~claimedSinceClear
  /\ ~storageIsProvisioned(store)

\* The body of a /provision POST is malformed or lacks one of its fields.
MalformedOrMissing(b) ==
  \/ ~b.json
  \/ b.ssid = Absent
  \/ b.password = Absent
  \/ b.claimToken = Absent
  \/ b.serverUrl = Absent

\* The bodies that are malformed or lack a field.
MalformedBodies == {b \in Bodies : MalformedOrMissing(b)}

\* C6: a /provision POST whose body is malformed or lacks one of the four
\* fields is answered with 400 and changes neither the store nor the set of
\* background tasks, and restarts nothing.
C6_RejectedProvisionNoChange ==
  [][\/ /\ response' = 400
        /\ store' = store
        /\ tasks' = tasks
        /\ pc' = pc
     \/ ~ServerReachable
     \/ ~ \E b \in MalformedBodies : HandleProvision(b)]_vars

C6_Witness ==
  /\ response = 400
  /\ isProvisioning
  /\ store = EmptyStore
  /\ tasks = EmptyBag

ProvisionWriteOrder == <<"wifi_ssid", "wifi_pass", "claim_token", "claim_url">>

\* C7: every background task was created after its 200 response was sent,
\* writes the WifiCredentials and then the PendingClaim, and restarts the
\* device only after it has written both.
C7_ResponseThenPersistThenRestart ==
  [][/\ \A t \in BagToSet(tasks') :
          /\ t.responded
          /\ \E n \in 0..Len(ProvisionWriteOrder) :
               t.wrote = SubSeq(ProvisionWriteOrder, 1, n)
     /\ \A t \in BagToSet(tasks) :
          TaskRestart(t) => (t.responded /\ t.wrote = ProvisionWriteOrder)]_vars

C7_Witness ==
  /\ response = 200
  /\ \E t \in BagToSet(tasks) : t.pc = "restart" /\ t.params = BodyA
  /\ store["wifi_ssid"] = "netA"
  /\ store["claim_token"] = "tokA"

\* C8: claimDevice is called only by a boot that found a PendingClaim,
\* only with the network joined, never while provisioning is active, and at
\* most once per boot.
C8_ClaimOnlyAtPendingBoot ==
  [][/\ (claimCalls' > claimCalls) =>
          /\ claimCalls = 0
          /\ pc = "setup_join"
          /\ wifiStatus
          /\ getString(store, "claim_token") # ""
          /\ ~isProvisioning
     /\ (pc' = "setup_claim") => (~isProvisioning' /\ claimCalls' = 1)
     /\ claimCalls' <= 1
     /\ isProvisioning' => (pc' # "setup_claim")]_vars

C8_Witness ==
  /\ pc = "setup_claim"
  /\ claimCalls = 1
  /\ wifiStatus

\* C9: a factory reset is triggered only when the button has physically
\* been down, without a release, for at least the hold threshold.
C9_ResetOnlyAfterContinuousHold ==
  [][(pc = "loop" /\ pc' = "reset_blink") =>
       (button /\ msButtonHeld >= RESET_HOLD_TIME_MS)]_vars

\* C10: the restart of a factory reset leaves an empty store to the boot
\* that follows.
C10_FactoryResetClearsAll ==
  [][FactoryResetRestart => store' = EmptyStore]_vars

\* The answer r of the claim server is a success: HTTP 200 or 201 with a
\* body that parses as JSON and holds success:true.
ClaimAccepted(r) == (r.code = 200 \/ r.code = 201) /\ r.json /\ r.success

\* C11: claimDevice returns success exactly for an accepted answer, and in
\* every other case success == false with a non-empty error string.
C11_ClaimResult ==
  lastCall.fn = "claimDevice" =>
    /\ result.success <=> ClaimAccepted(lastCall.r)
    /\ ~result.success => result.error # ""

\* C12: a load that directly follows a save returns every saved field
\* exactly: storageSaveWifi then storageLoadWifi for a non-empty network
\* name, and storageSaveMqtt then storageLoadMqtt for the ten fields of a
\* broker record with a non-empty address.
C12_RoundTrip ==
  [][/\ (\E g \in Garbage : /\ lastCall.fn = "storageSaveWifi"
                            /\ lastCall.ssid # ""
                            /\ ApiLoadWifi(g))
          => /\ wifiCreds'.ssid = lastCall.ssid
             /\ wifiCreds'.password = lastCall.password
     /\ (\E g \in Garbage : /\ lastCall.fn = "storageSaveMqtt"
                            /\ lastCall.m.broker # ""
                            /\ ApiLoadMqtt(g))
          => \A i \in 1..Len(MqttFields) :
               mqttCreds'[MqttFields[i]] = lastCall.m[MqttFields[i]]]_vars

\* C13: for every store state, storageLoadWifi is valid iff the stored
\* network name is non-empty and storageLoadMqtt is valid iff the stored
\* broker address is non-empty; on an empty store (never written, or
\* cleared) both are invalid and storageIsProvisioned is false.
C13_LoadValidity ==
  /\ \A g \in Garbage :
       /\ storageLoadWifiWith(store, g).isValid
            <=> getString(store, "wifi_ssid") # ""
       /\ storageLoadMqttWith(store, g).isValid
            <=> getString(store, "mqtt_broker") # ""
  /\ lastCall.fn = "storageLoadWifi" =>
       (wifiCreds.isValid <=> getString(store, "wifi_ssid") # "")
  /\ lastCall.fn = "storageLoadMqtt" =>
       (mqttCreds.isValid <=> getString(store, "mqtt_broker") # "")
  /\ store = EmptyStore =>
       /\ ~storageIsProvisioned(store)
       /\ lastCall.fn = "storageLoadWifi" => ~wifiCreds.isValid
       /\ lastCall.fn = "storageLoadMqtt" => ~mqttCreds.isValid

\* A network name was saved and loaded as valid, after a broker record
\* with an empty address was saved and loaded as invalid.
C13_Witness ==
  /\ lastCall.fn = "storageLoadWifi"
  /\ wifiCreds.isValid
  /\ wifiCreds.ssid = "netA"
  /\ store["mqtt_broker"] = ""
  /\ ~mqttCreds.isValid

\* C14: every broker record is valid only with a non-empty broker address
\* (the record a claim returned, the one the controller holds), and
\* mqttClient.connect is never attempted with an empty address.
C14_ValidBrokerNonEmpty ==
  /\ result.mqtt.isValid => result.mqtt.broker # ""
  /\ mqttCreds.isValid => mqttCreds.broker # ""
  /\ pc = "loop_mqtt" => mqttCreds.broker # ""

CommandDelivered == lastCall.fn = "mqttCallback" /\ lastCall.m.json

\* C16: the ack of a toggle-led command has status "success" and state.led
\* equal to params.state (false when it is absent or no boolean), and the
\* LED is at that level, whatever it was before.
C16_ToggleLedAck ==
  (CommandDelivered /\ lastCall.m.action = "toggle-led") =>
    /\ Len(published) = 1
    /\ published[1].status = "success"
    /\ published[1].led = (lastCall.m.params.state = "true")
    /\ ledPin = published[1].led

\* toggle-led with params.state = true arrived while the LED was on.
C16_Witness ==
  /\ CommandDelivered
  /\ lastCall.m.action = "toggle-led"
  /\ lastCall.m.params.state = "true"
  /\ lastCall.led
  /\ published[1].led

\* C17: every command that parses as JSON is answered by exactly one ack
\* carrying its correlationId; no ack has status "error"; an unknown, empty
\* or absent action is acknowledged with status "success", no error field
\* and the LED unchanged.
C17_AckUnconditional ==
  /\ \A i \in 1..Len(published) : published[i].status # "error"
  /\ CommandDelivered =>
       /\ Len(published) = 1
       /\ published[1].correlationId = lastCall.m.correlationId
       /\ lastCall.m.action \notin {"set_state", "toggle-led"} =>
            /\ published[1].status = "success"
            /\ published[1].error = Absent
            /\ ledPin = lastCall.led
            /\ published[1].led = lastCall.led

\* An unknown action arrived while the LED was on.
C17_Witness ==
  /\ CommandDelivered
  /\ lastCall.m.action = "reboot"
  /\ lastCall.m.correlationId = "c1"
  /\ lastCall.led
  /\ published[1].status = "success"

\* C18: after any sequence of provisioningStart and provisioningStop calls
\* at most one AsyncWebServer exists, the server pointer is set exactly
\* when one exists, and provisioningIsActive() is true iff the last call
\* was provisioningStart; a stop while inactive leaves it inactive.
C18_StartStop ==
  pc = "server" =>
    /\ liveServers <= 1
    /\ (server # "nullptr") <=> (liveServers = 1)
    /\ isProvisioning <=> (lastCall.fn = "provisioningStart")
    /\ isProvisioning <=> (liveServers = 1)

\* provisioningStart was called while provisioning was active.
C18_Witness ==
  /\ pc = "server"
  /\ lastCall.fn = "provisioningStart"
  /\ lastCall.wasActive
  /\ isProvisioning
  /\ liveServers = 1

\* The writers of the store that have begun and not finished: the
\* provisioningTask instances, the factory-reset flow, and the claim branch
\* of setup().
MutatorsActive ==
  BagCardinality(tasks)
    + (IF pc \in {"reset_blink", "reset_delay"} THEN 1 ELSE 0)
    + (IF pc \in {"setup_join", "setup_claim"} THEN 1 ELSE 0)

\* C19: at most one mutator of the store is active at any time, and at
\* most one provisioningTask exists.
C19_SingleMutator ==
  /\ BagCardinality(tasks) <= 1
  /\ MutatorsActive <= 1

\* C20: a boot that finds invalid stored credentials (provisioned flag with
\* an invalid record, or a pending claim with invalid network credentials)
\* has an empty store when it starts provisioning.
C20_InvalidCredentialsCleared ==
  [][(SetupBegin /\ bootPath' \in {"invalid_credentials",
                                   "pending_invalid_wifi"})
       => (isProvisioning' /\ store' = EmptyStore)]_vars

\* The reset button has been seen down by the previous button check and
\* is still down at least RESET_HOLD_TIME_MS after it was first seen down.
HoldObserved ==
  /\ button
  /\ buttonWasPressed
  /\ msSinceButtonPressStart >= RESET_HOLD_TIME_MS

\* A step of loop() did no connectivity work: no join, no broker connect,
\* no publish, and the reconnect and telemetry timers are as they were.
NoConnectivityWork ==
  /\ pc' \notin {"loop_wifi", "loop_mqtt"}
  /\ staBegun' = staBegun
  /\ mqttConnected' = mqttConnected
  /\ mqttServer' = mqttServer
  /\ published' = <<>>
  /\ msSinceReconnectAttempt' = msSinceReconnectAttempt
  /\ msSinceTelemetry' = msSinceTelemetry

\* C23: every loop tick runs the factory-reset button check, whatever the
\* lifecycle state, and runs it before any connectivity work: a tick whose
\* check finds the hold complete starts the reset and does no connectivity
\* work, and any other tick records the button level it read.
C23_ResetCheckFirst ==
  [][LoopTick =>
       /\ buttonSampled'
       /\ IF HoldObserved
            THEN pc' = "reset_blink" /\ NoConnectivityWork
            ELSE buttonWasPressed' = button /\ pc' # "reset_blink"]_vars

\* The check started a factory reset in a tick with provisioning active.
C23_Witness ==
  /\ pc = "reset_blink"
  /\ isProvisioning
  /\ buttonWasPressed

\* C24: while provisioning is active a loop tick does nothing besides the
\* button check: no join, no broker connect, no publish, the reconnect and
\* telemetry timers unchanged.
C24_ProvisioningTickIdle ==
  [][(isProvisioning /\ LoopTick) =>
       /\ NoConnectivityWork
       /\ pc' \in {"loop", "reset_blink"}
       /\ wifiStatus' = wifiStatus]_vars

\* A loop tick ran with provisioning active and network credentials in the
\* store (a provisioningTask wrote them): its button check saw the button
\* down, and no join was started.
C24_Witness ==
  /\ pc = "loop"
  /\ isProvisioning
  /\ storageLoadWifi(store).isValid
  /\ buttonWasPressed
  /\ buttonSampled
  /\ ~staBegun

\* A tick of loop() that gets past the button check.
TickPastCheck == LoopTick /\ ~HoldObserved

\* C25: a loop tick that finds the network link down (provisioning
\* inactive) starts a rejoin with the stored credentials and does nothing
\* else: no broker connect, no publish, timers unchanged; a broker connect
\* is started from loop() only in a tick that saw the link up.
C25_LinkDownDefers ==
  [][/\ (~isProvisioning /\ ~wifiStatus /\ TickPastCheck) =>
          /\ pc' # "loop_mqtt"
          /\ storageLoadWifi(store).isValid =>
               (pc' = "loop_wifi" /\ staBegun' /\ msSinceJoinStart' = 0)
          /\ mqttConnected' = mqttConnected
          /\ mqttServer' = mqttServer
          /\ published' = <<>>
          /\ msSinceReconnectAttempt' = msSinceReconnectAttempt
          /\ msSinceTelemetry' = msSinceTelemetry
     /\ (pc = "loop" /\ pc' = "loop_mqtt") => (wifiStatus /\ ~isProvisioning)]_vars

\* A rejoin was started by a tick that found the link down while the
\* broker cooldown and the telemetry interval were both over.
C25_Witness ==
  /\ pc = "loop_wifi"
  /\ ~wifiStatus
  /\ ~mqttConnected
  /\ mqttCreds.isValid
  /\ msSinceReconnectAttempt > MQTT_RECONNECT_DELAY_MS
  /\ msSinceTelemetry > TELEMETRY_INTERVAL_MS

\* A step of the loopTask inside loop(): a tick, or the return of the
\* broker connect a tick started.
LoopStep == LoopTick \/ \E ok \in BOOLEAN : MqttConnectReturn(ok)

\* C26: broker connect attempts are more than MQTT_RECONNECT_DELAY_MS
\* apart and none is made while the broker link is up.  The time since the
\* last attempt is msSinceReconnectAttempt: it returns to 0 exactly when an
\* attempt is started (or the cooldown is consumed without one, or the
\* device restarts), and an attempt starts only when it is past the delay.
C26_ReconnectThrottled ==
  [][/\ (pc' = "loop_mqtt" /\ pc # "loop_mqtt") =>
          /\ pc = "loop"
          /\ msSinceReconnectAttempt > MQTT_RECONNECT_DELAY_MS
          /\ msSinceReconnectAttempt' = 0
          /\ ~mqttConnected
          /\ published' = <<connect(mqttCreds)>>
     /\ (msSinceReconnectAttempt' > msSinceReconnectAttempt) =>
          /\ msSinceReconnectAttempt' = msSinceReconnectAttempt + Quantum
          /\ pc' = pc
     /\ (/\ LoopStep
         /\ \E i \in 1..Len(published') : published'[i].op = "connect") =>
          (pc = "loop" /\ pc' = "loop_mqtt")]_vars

\* A second connect attempt is under way: the first one failed.
C26_Witness ==
  /\ pc = "loop_mqtt"
  /\ msSinceReconnectAttempt = 0
  /\ mqttServer.host = "host"
  /\ ~mqttConnected
  /\ msSinceTelemetry > TELEMETRY_INTERVAL_MS

\* The telemetry message is among those the step published.
TelemetryPublished ==
  \E i \in 1..Len(published') :
    published'[i] = [op |-> "publish", topic |-> mqttCreds.topicTelemetry,
                     payload |-> "telemetry", retained |-> FALSE]

\* C27: telemetry is published at most once per TELEMETRY_INTERVAL_MS and
\* only while the broker client is connected: a step publishes it only when
\* the time since the telemetry timer was last reset is past the interval,
\* with the client connected, the link up and provisioning inactive, and
\* the step resets that time, which otherwise grows only with the clock.
C27_TelemetryThrottled ==
  [][/\ (LoopStep /\ TelemetryPublished) =>
          /\ msSinceTelemetry > TELEMETRY_INTERVAL_MS
          /\ msSinceTelemetry' = 0
          /\ mqttConnected'
          /\ wifiStatus
          /\ ~isProvisioning
     /\ (msSinceTelemetry' > msSinceTelemetry) =>
          /\ msSinceTelemetry' = msSinceTelemetry + Quantum
          /\ pc' = pc
     /\ (LoopTick /\ (isProvisioning \/ ~wifiStatus \/ ~mqttConnected)) =>
          ~TelemetryPublished]_vars

\* Telemetry was published by a tick with the broker connected.
C27_Witness ==
  /\ pc = "loop"
  /\ mqttConnected
  /\ wifiStatus
  /\ msSinceTelemetry = 0
  /\ published = <<sendTelemetry>>

\* C28: broker reconnect is indefinite with a fixed cooldown: a tick that
\* gets past the button check with valid credentials, the link up, the
\* broker down and more than MQTT_RECONNECT_DELAY_MS since the last attempt
\* starts an attempt, however many failed before; a failed attempt changes
\* nothing but the broker state it found, so the next one needs the same
\* delay.
C28_ReconnectIndefinite ==
  [][/\ (/\ ~isProvisioning
         /\ wifiStatus
         /\ ~mqttConnected
         /\ mqttCreds.isValid
         /\ msSinceReconnectAttempt > MQTT_RECONNECT_DELAY_MS
         /\ TickPastCheck)
          => (pc' = "loop_mqtt" /\ msSinceReconnectAttempt' = 0)
     /\ MqttConnectReturn(FALSE) =>
          /\ pc' = "loop"
          /\ ~mqttConnected'
          /\ mqttCreds' = mqttCreds
          /\ msSinceReconnectAttempt' = msSinceReconnectAttempt
          /\ isProvisioning' = isProvisioning
          /\ store' = store]_vars

\* An attempt was made since the boot, the broker is down and the cooldown
\* has run out again: the next tick starts another attempt.
C28_Witness ==
  /\ pc = "loop"
  /\ mqttServer # NoServer
  /\ ~mqttConnected
  /\ wifiStatus
  /\ ~isProvisioning
  /\ mqttCreds.isValid
  /\ published = <<>>
  /\ msSinceReconnectAttempt > MQTT_RECONNECT_DELAY_MS

\* C29: every broker session is opened with a retained last will "offline"
\* on the status topic; a connect that succeeds subscribes to the commands
\* topic and then publishes the retained "online" status; one that fails
\* subscribes to nothing, publishes nothing and leaves the client
\* disconnected and the cooldown running.
C29_ConnectProcedure ==
  [][/\ (pc = "loop" /\ pc' = "loop_mqtt") =>
          /\ Len(published') = 1
          /\ published'[1].op = "connect"
          /\ published'[1].willTopic = mqttCreds.topicStatus
          /\ published'[1].willMessage = "offline"
          /\ published'[1].willRetain
     /\ (pc = "loop_mqtt" /\ pc' = "loop") =>
          IF mqttConnected'
            THEN /\ Len(published') >= 2
                 /\ published'[1] =
                      [op |-> "subscribe", topic |-> mqttCreds.topicCommands]
                 /\ published'[2] =
                      [op |-> "publish", topic |-> mqttCreds.topicStatus,
                       payload |-> "online", retained |-> TRUE]
            ELSE /\ published' = <<>>
                 /\ msSinceReconnectAttempt' = msSinceReconnectAttempt]_vars

\* A connect succeeded: the client is connected and the last step
\* subscribed and published the status.
C29_Witness ==
  /\ pc = "loop"
  /\ mqttConnected
  /\ Len(published) >= 2
  /\ published[1].op = "subscribe"
  /\ published[2].op = "publish"

\* C30: a set_state command applies the led key of params and nothing else:
\* whatever other key params carries, the ack has status "success" and no
\* error, and the LED is at the led value when params has one and where it
\* was when params has none.
C30_SetStateAppliesLedOnly ==
  (CommandDelivered /\ lastCall.m.action = "set_state") =>
    /\ Len(published) = 1
    /\ published[1].status = "success"
    /\ published[1].error = Absent
    /\ ledPin = (IF lastCall.m.params.led # Absent
                   THEN lastCall.m.params.led = "true"
                   ELSE lastCall.led)
    /\ published[1].led = ledPin

\* set_state with no led key and an unrecognized key arrived while the LED
\* was on, and left it on.
C30_Witness ==
  /\ CommandDelivered
  /\ lastCall.m.action = "set_state"
  /\ lastCall.m.params.led = Absent
  /\ lastCall.m.params.state = "false"
  /\ lastCall.led
  /\ ledPin

\* A step of the loopTask: setup(), loop() or the factory reset it runs.
ControllerStep ==
  \/ SetupBegin
  \/ SetupJoinExit
  \/ \E r \in ClaimResponses : SetupClaimReturn(r)
  \/ SetupWifiExit
  \/ SetupReturn
  \/ LoopTick
  \/ LoopWifiExit
  \/ \E ok \in BOOLEAN : MqttConnectReturn(ok)
  \/ FactoryResetClear
  \/ FactoryResetRestart

\* The loopTask is inside a join wait that has neither joined nor timed out.
JoinWaiting ==
  /\ pc \in {"setup_join", "setup_wifi", "loop_wifi"}
  /\ ~wifiStatus
  /\ msSinceJoinStart < JoinLimit

\* C22: no reachable state is stuck: in every state the loopTask can take
\* its next step, or it is inside a join wait that the clock ends; a
\* malformed provisioning request is answered; and each restart, of the
\* factory reset or of a provisioning task, is enabled and leads to a boot,
\* from which setup() starts.
C22_NoStuckState ==
  /\ \/ ENABLED ControllerStep
     \/ JoinWaiting /\ ENABLED (Tick /\ msSinceJoinStart' > msSinceJoinStart)
  /\ pc = "boot" => ENABLED SetupBegin
  /\ pc = "reset_delay" => ENABLED (FactoryResetRestart /\ pc' = "boot")
  /\ \A t \in BagToSet(tasks) :
       t.pc = "restart" => ENABLED (TaskRestart(t) /\ pc' = "boot")
  /\ ServerReachable =>
       \A b \in Bodies : Rejected(b) => ENABLED HandleProvision(b)

\* setup() is about to return after a failed claim, with provisioning
\* started.
C22_Witness ==
  /\ pc = "setup_return"
  /\ bootPath = "claim_failed"
  /\ isProvisioning
  /\ ~result.success

\* A step of a provisioning task (provisioningTask).
TaskStep ==
  \E t \in BagToSet(tasks) :
    TaskSaveWifi(t) \/ TaskPutToken(t) \/ TaskPutUrl(t) \/ TaskRestart(t)

\* POST /provision from an installer that waits for the restart its last
\* request started before it posts again.
HandleProvisionAlone(b) == tasks = EmptyBag /\ HandleProvision(b)

NextLive ==
  \/ ControllerStep
  \/ \E t \in BagToSet(tasks) : TaskSaveWifi(t)
  \/ \E t \in BagToSet(tasks) : TaskPutToken(t)
  \/ \E t \in BagToSet(tasks) : TaskPutUrl(t)
  \/ \E t \in BagToSet(tasks) : TaskRestart(t)
  \/ \E b \in Bodies : HandleProvisionAlone(b)
  \/ ButtonPress
  \/ ButtonRelease
  \/ WifiUp
  \/ WifiDown
  \/ MqttDrop
  \/ PowerCycle
  \/ Tick

\* The loopTask runs setup() once and then loop() forever (the Arduino
\* core's loopTask), a created provisioning task runs to its restart, and
\* millis() advances: a step of a task that stays possible is taken, and so
\* is a step of the clock.  Nothing is assumed of the network, the broker,
\* the button or the installer.
SpecLive ==
  /\ Init
  /\ [][NextLive]_vars
  /\ WF_vars(ControllerStep)
  /\ WF_vars(TaskStep)
  /\ WF_vars(Tick)

\* The device left the steady loop: factory reset or restart.
LeftLoop == pc \in {"reset_blink", "reset_delay", "boot"}

\* loop() finds the broker down with the link up and valid credentials.
BrokerDown ==
  /\ pc = "loop"
  /\ ~isProvisioning
  /\ wifiStatus
  /\ ~mqttConnected
  /\ mqttCreds.isValid

\* loop() finds the link down with a valid Wi-Fi record stored.
LinkDown ==
  /\ pc = "loop"
  /\ ~isProvisioning
  /\ ~wifiStatus
  /\ storageLoadWifi(store).isValid

\* setup() gave up the join, or its claim call failed in the transport.
SetupJoinTimedOut == pc = "setup_return" /\ bootPath = "join_timeout"

SetupClaimTransportFailed ==
  /\ pc = "setup_return"
  /\ bootPath = "claim_failed"
  /\ result.error = "Connection failed"

\* C21: the transport failures of the steady loop are retried by the
\* loopTask itself: with the broker down it starts a connect again, and
\* with the link down it starts a join again, unless the link changes or
\* the device is reset first.  The transport failures of the boot with a
\* pending claim are not retried: they leave the device provisioning with
\* no Wi-Fi record to join with.
C21_LoopRetries ==
  /\ BrokerDown ~> (pc = "loop_mqtt" \/ ~wifiStatus \/ LeftLoop)
  /\ LinkDown ~> (pc = "loop_wifi" \/ wifiStatus \/ LeftLoop)
  /\ []((SetupJoinTimedOut \/ SetupClaimTransportFailed) =>
          (isProvisioning /\ ~storageLoadWifi(store).isValid))

\* A connect was attempted, the broker is down and the cooldown is running.
C21_Witness ==
  /\ BrokerDown
  /\ mqttServer # NoServer
  /\ msSinceReconnectAttempt = Quantum
  /\ published = <<>>

\* C21 as stated: after every transport failure, those of setup() included,
\* the loopTask attempts the same operation again.
C21_AsStated ==
  /\ BrokerDown ~> (pc = "loop_mqtt" \/ ~wifiStatus \/ LeftLoop)
  /\ LinkDown ~> (pc = "loop_wifi" \/ wifiStatus \/ LeftLoop)
  /\ SetupJoinTimedOut ~> (pc = "setup_join" \/ LeftLoop)
  /\ SetupClaimTransportFailed ~> (pc = "setup_claim" \/ LeftLoop)

ProvisionedKeys ==
  [wifi_ssid |-> "ssid", wifi_pass |-> "password", claim_token |-> "claimToken",
   claim_url |-> "serverUrl"]

\* The bodies handleProvision accepts.
AcceptedBodies == {b \in Bodies : ~Rejected(b)}

\* Every provisioning key the store s holds was written from the request b.
FromRequest(s, b) ==
  \A k \in DOMAIN ProvisionedKeys :
    s[k] # Absent => s[k] = b[ProvisionedKeys[k]]

\* C32: the Wi-Fi record and the pending claim a boot finds in the store
\* come from one accepted /provision request: every provisioning key
\* present was written from the same request, and a claim token is never
\* there without the network name of its request.
C32_OneRequestAtBoot ==
  pc = "boot" =>
    /\ \E b \in AcceptedBodies : FromRequest(store, b)
    /\ store["claim_token"] # Absent => store["wifi_ssid"] # Absent

\* The store holds exactly what the request b asked to be written.
WrittenFrom(s, b) ==
  \A k \in DOMAIN ProvisionedKeys : s[k] = b[ProvisionedKeys[k]]

\* C33: every accepted /provision request leads to the pending-claim path
\* at the next boot: when its task restarts the device with the store
\* holding what the request asked for, the boot finds a pending claim and a
\* valid Wi-Fi record, the conditions under which setup() starts the join.
C33_AcceptedLeadsToJoin ==
  [][\A t \in BagToSet(tasks) :
       (TaskRestart(t) /\ WrittenFrom(store, t.params)) =>
         /\ PendingClaimFound(store')
         /\ storageLoadWifi(store').isValid]_vars

\* C34: whenever the store's provisioned flag is set, the stored broker
\* record and the stored Wi-Fi record are both valid, which is what the
\* boot of a provisioned device needs to stay out of provisioning.
C34_ProvisionedImpliesValid ==
  storageIsProvisioned(store) =>
    /\ storageLoadMqtt(store).isValid
    /\ storageLoadWifi(store).isValid

\* The commands that parse as JSON.
WellFormed == {m \in Messages : m.json}

\* C35: a message that does not parse as JSON is dropped: it publishes no
\* ack and leaves the LED, the broker session and the server setting as
\* they were; and after it every well-formed command can still be
\* delivered, and is answered with one ack carrying its correlationId.
C35_MalformedDropped ==
  [][/\ \A m \in Messages \ WellFormed :
          ApiMessage(m) =>
            /\ published' = <<>>
            /\ ledPin' = ledPin
            /\ mqttConnected' = mqttConnected
            /\ mqttServer' = mqttServer
            /\ pc' = pc
            /\ \A n \in WellFormed : ENABLED ApiMessage(n)
     /\ (lastCall.fn = "mqttCallback" /\ ~lastCall.m.json) =>
          \A n \in WellFormed :
            ApiMessage(n) =>
              /\ Len(published') = 1
              /\ published'[1].correlationId = n.correlationId
              /\ ledPin' = LedAfter(n, ledPin)]_vars

\* A malformed message was dropped while the LED was on.
C35_Witness ==
  /\ lastCall.fn = "mqttCallback"
  /\ ~lastCall.m.json
  /\ lastCall.led
  /\ ledPin
  /\ published = <<>>

\* The store of a provisioned device: the flag set, both records valid and
\* no pending claim.
StoredCredentialsValid ==
  /\ storageIsProvisioned(store)
  /\ storageLoadMqtt(store).isValid
  /\ storageLoadWifi(store).isValid
  /\ ~PendingClaimFound(store)

\* A step in which the link is lost, the broker refuses a connect or the
\* power is cut.
JoinOrConnectFails == WifiDown \/ MqttConnectReturn(FALSE) \/ PowerCycle

\* A step in which the network, the broker or the power fails: the above,
\* or an established session is lost.
EnvironmentFails == JoinOrConnectFails \/ MqttDrop

\* The broker session stands: connected by a step that subscribed to the
\* commands topic and published the online status.
SessionEstablished ==
  /\ mqttConnected
  /\ Len(published) >= 2
  /\ published[1] = subscribe(mqttCreds)
  /\ published[2] = sendStatus(TRUE)

\* The last step of the loopTask published telemetry.
TelemetryPublishedLast ==
  \E i \in 1..Len(published) : published[i] = sendTelemetry

\* C36: a device whose store stays that of a provisioned device, and for
\* which from some point on a begun join succeeds, the link and the session
\* are not lost, the broker accepts every connect, the power stays on and
\* the reset button is not pressed, eventually establishes the broker
\* session and then publishes telemetry again and again.
C36_SteadyStateLive ==
  (/\ <>[]StoredCredentialsValid
   /\ <>[](~button)
   /\ <>[][~EnvironmentFails]_vars
   /\ WF_vars(WifiUp))
    => (<>SessionEstablished /\ []<>TelemetryPublishedLast)

\* The session was established by a boot from a provisioned store, and
\* telemetry went out with the connect.
C36_Witness ==
  /\ StoredCredentialsValid
  /\ SessionEstablished
  /\ TelemetryPublishedLast
  /\ ~button
  /\ wifiStatus

\* C36 as stated: the joins succeed, the broker accepts every connect and
\* the button is not pressed, but an established session may be lost.
C36_AsStated ==
  (/\ <>[]StoredCredentialsValid
   /\ <>[](~button)
   /\ <>[][~JoinOrConnectFails]_vars
   /\ WF_vars(WifiUp))
    => (<>SessionEstablished /\ []<>TelemetryPublishedLast)

====
